---- MODULE Spec2Model ----
(***************************************************************************)
(* Model of the webpack configuration generator (src/src/index.ts):        *)
(* parameter discovery (generateParameters) over a source tree and         *)
(* configuration assembly (makeConfigWithParameters, makeConfig).          *)
(*                                                                         *)
(* Strings are TLA+ strings; a character is a string of length one.        *)
(* Paths follow POSIX node:path semantics ("/" is the only separator).     *)
(***************************************************************************)
EXTENDS Naturals, Sequences, FiniteSets, TLC

VARIABLES files, cwd, parameters, previous, flat, config, call, calls, filtered

vars == <<files, cwd, parameters, previous, flat, config, call, calls, filtered>>

(***************************************************************************)
(* Bounds of the model.                                                    *)
(***************************************************************************)
MaxFiles == 2
MaxCalls == 2
MaxAttributes == 2

(***************************************************************************)
(* String helpers.                                                         *)
(***************************************************************************)
CharAt(s, i) == SubSeq(s, i, i)

StartsWith(s, p) == Len(p) <= Len(s) /\ SubSeq(s, 1, Len(p)) = p

EndsWith(s, x) == Len(x) <= Len(s) /\ SubSeq(s, Len(s) - Len(x) + 1, Len(s)) = x

\* Positions of "/" in s.
SlashPositions(s) == {i \in 1..Len(s) : CharAt(s, i) = "/"}

Max(S) == CHOOSE m \in S : \A n \in S : n <= m

\* s.indexOf("/", i - 1) + 1: the first "/" at or after position i, 0 if none.
RECURSIVE IndexOfSlash(_, _)
IndexOfSlash(s, i) ==
    IF i > Len(s) THEN 0
    ELSE IF CharAt(s, i) = "/" THEN i
    ELSE IndexOfSlash(s, i + 1)

\* s.split("/")
RECURSIVE Split(_)
Split(s) ==
    LET i == IndexOfSlash(s, 1)
    IN IF i = 0 THEN <<s>>
       ELSE <<SubSeq(s, 1, i - 1)>> \o Split(SubSeq(s, i + 1, Len(s)))

\* segments.join("/")
RECURSIVE JoinSegments(_)
JoinSegments(segs) ==
    IF segs = <<>> THEN ""
    ELSE IF Len(segs) = 1 THEN segs[1]
    ELSE segs[1] \o "/" \o JoinSegments(Tail(segs))

\* String.prototype.replace(/\//g, "_")
RECURSIVE ReplaceSlashes(_)
ReplaceSlashes(s) ==
    IF s = "" THEN ""
    ELSE (IF CharAt(s, 1) = "/" THEN "_" ELSE CharAt(s, 1))
         \o ReplaceSlashes(SubSeq(s, 2, Len(s)))

(***************************************************************************)
(* node:path (POSIX).                                                      *)
(***************************************************************************)
\* The last path segment of a path without trailing slashes.
LastSegment(path) ==
    IF SlashPositions(path) = {} THEN path
    ELSE SubSeq(path, Max(SlashPositions(path)) + 1, Len(path))

\* basename(path, suffix): the last segment, with suffix removed when the
\* segment ends with it and is longer than it.
basename(path, suffix) ==
    IF suffix # "" /\ suffix = path THEN ""
    ELSE LET base == LastSegment(path)
         IN IF suffix # "" /\ EndsWith(base, suffix) /\ Len(base) > Len(suffix)
            THEN SubSeq(base, 1, Len(base) - Len(suffix))
            ELSE base

\* extname(path): from the last "." of the last segment, "" when there is
\* none or when it is the segment's first character.
extname(path) ==
    LET base == LastSegment(path)
        dots == {i \in 1..Len(base) : CharAt(base, i) = "."}
    IN IF dots = {} \/ Max(dots) = 1 THEN ""
       ELSE SubSeq(base, Max(dots), Len(base))

\* dirname(path) for a path without trailing slashes.
dirname(path) ==
    LET slashes == SlashPositions(path) \ {1}
    IN IF path = "" THEN "."
       ELSE IF slashes = {} THEN (IF StartsWith(path, "/") THEN "/" ELSE ".")
       ELSE SubSeq(path, 1, Max(slashes) - 1)

\* Normalisation of a list of segments: "" and "." are dropped, ".." removes
\* the segment before it (and is kept at the front of a relative path).
RECURSIVE NormalizeSegments(_, _, _)
NormalizeSegments(segs, acc, absolute) ==
    IF segs = <<>> THEN acc
    ELSE LET s == Head(segs)
         IN IF s = "" \/ s = "." THEN NormalizeSegments(Tail(segs), acc, absolute)
            ELSE IF s = ".."
            THEN IF acc # <<>> /\ acc[Len(acc)] # ".."
                 THEN NormalizeSegments(Tail(segs), SubSeq(acc, 1, Len(acc) - 1), absolute)
                 ELSE IF absolute
                 THEN NormalizeSegments(Tail(segs), acc, absolute)
                 ELSE NormalizeSegments(Tail(segs), Append(acc, ".."), absolute)
            ELSE NormalizeSegments(Tail(segs), Append(acc, s), absolute)

\* normalize(path)
normalize(path) ==
    LET absolute == StartsWith(path, "/")
        trailing == EndsWith(path, "/")
        body     == JoinSegments(NormalizeSegments(Split(path), <<>>, absolute))
    IN IF path = "" THEN "."
       ELSE IF absolute THEN "/" \o body \o (IF trailing /\ body # "" THEN "/" ELSE "")
       ELSE IF body = "" THEN (IF trailing THEN "./" ELSE ".")
       ELSE body \o (IF trailing THEN "/" ELSE "")

\* join(a, b)
join(a, b) ==
    IF a = "" /\ b = "" THEN "."
    ELSE IF a = "" THEN normalize(b)
    ELSE IF b = "" THEN normalize(a)
    ELSE normalize(a \o "/" \o b)

\* resolve(from, to): to is resolved against from, from against the process's
\* working directory wd; no trailing slash is kept.
pathResolve(wd, from, to) ==
    LET joined == IF StartsWith(to, "/") THEN to
                  ELSE IF StartsWith(from, "/") THEN from \o "/" \o to
                  ELSE wd \o "/" \o from \o "/" \o to
    IN "/" \o JoinSegments(NormalizeSegments(Split(joined), <<>>, TRUE))

\* Number of leading segments two segment lists share.
RECURSIVE CommonPrefixLen(_, _)
CommonPrefixLen(a, b) ==
    IF a = <<>> \/ b = <<>> \/ Head(a) # Head(b) THEN 0
    ELSE 1 + CommonPrefixLen(Tail(a), Tail(b))

\* relative(from, to): both are resolved against wd; one ".." for every segment
\* of from below the common prefix, then what is left of to.
relative(wd, from, to) ==
    LET f  == NormalizeSegments(Split(pathResolve(wd, ".", from)), <<>>, TRUE)
        t  == NormalizeSegments(Split(pathResolve(wd, ".", to)), <<>>, TRUE)
        n  == CommonPrefixLen(f, t)
        up == [i \in 1..(Len(f) - n) |-> ".."]
    IN JoinSegments(up \o SubSeq(t, n + 1, Len(t)))

(***************************************************************************)
(* The file system and the process environment.                            *)
(***************************************************************************)
\* Candidate regular files, as paths relative to the working directory.  No
\* name starts with "." and no directory carries an extension.
FileUniverse ==
    { "src/scripts/a.ts", "src/scripts/b.ts", "src/scripts/x/a.ts", "src/a.ts",
      "src/index.html", "src/p/a.html", "src/p_a.html", "src/a.css", "lib/a.html" }

WorkingDirectories == {"/w"}

\* Duplicate-free listings of at most n files, in enumeration order.
RECURSIVE Listings(_)
Listings(n) ==
    IF n = 0 THEN {<<>>}
    ELSE LET shorter == Listings(n - 1)
         IN shorter \cup
            {Append(l, f) : <<l, f>> \in
                {<<l, f>> \in shorter \X FileUniverse :
                    /\ Len(l) = n - 1
                    /\ \A i \in 1..Len(l) : l[i] # f}}

\* const __dirname = cwd(), read once when the module is loaded.
ModuleDirname == cwd

\* One pattern segment against one path segment: "*" stands for any run of
\* characters, and only a leading "*" occurs in this program's patterns.
SegmentMatch(pat, seg) ==
    IF StartsWith(pat, "*") THEN EndsWith(seg, SubSeq(pat, 2, Len(pat)))
    ELSE pat = seg

\* Pattern segments against path segments: "**" stands for any number of
\* directories, none included.
RECURSIVE GlobMatch(_, _)
GlobMatch(pat, segs) ==
    IF pat = <<>> THEN segs = <<>>
    ELSE IF Head(pat) = "**"
    THEN \/ GlobMatch(Tail(pat), segs)
         \/ segs # <<>> /\ GlobMatch(pat, Tail(segs))
    ELSE /\ segs # <<>>
         /\ SegmentMatch(Head(pat), Head(segs))
         /\ GlobMatch(Tail(pat), Tail(segs))

\* globSync(pattern): the matching files, in enumeration order.
globSync(pattern) ==
    LET Matches(path) == GlobMatch(Split(pattern), Split(path))
    IN SelectSeq(files, Matches)

(***************************************************************************)
(* Parameter discovery, src/src/index.ts.                                  *)
(***************************************************************************)
scriptExtension == ".ts"
documentExtension == ".html"

\* A Record<string, string> is a function from its keys; obj[key] = value.
EmptyObject == [k \in {} |-> ""]

\* Variant: an existing key keeps its first value.
SetPropertyKeepFirst(obj, key, value) ==
    [k \in DOMAIN obj \cup {key} |->
        IF k \in DOMAIN obj THEN obj[k] ELSE value]

SetProperty(obj, key, value) ==
    [k \in DOMAIN obj \cup {key} |-> IF k = key THEN value ELSE obj[k]]

\* Variant: the page list outlives the call that filled it.
HtmlPagesKept == IF calls > 0 THEN parameters.htmlPages ELSE <<>>

\* const entry = {} and const htmlPages = [] : locals, fresh on every call.
EntryInit == EmptyObject
HtmlPagesInit == <<>>

\* for (const scriptFilePath of ...) entry[basename(...)] = `./${scriptFilePath}`
RECURSIVE CollectEntries(_, _)
CollectEntries(entry, scripts) ==
    IF scripts = <<>> THEN entry
    ELSE CollectEntries(
            SetProperty(entry, basename(Head(scripts), scriptExtension),
                        "./" \o Head(scripts)),
            Tail(scripts))

\* Variant: the chunk is named after the file alone, without its directories.
PageDescriptorBasename(documentFilePath) ==
    [ template |-> documentFilePath,
      filename |-> relative(cwd, "src", documentFilePath),
      chunks   |-> << basename(documentFilePath, documentExtension) >> ]

\* Variant: the page is written under its flattened name, next to the others.
PageDescriptorFlatFilename(documentFilePath) ==
    LET relativePath == relative(cwd, "src", documentFilePath)
        chunk == ReplaceSlashes(
                    join(dirname(relativePath),
                         basename(documentFilePath, documentExtension)))
    IN [ template |-> documentFilePath,
         filename |-> chunk \o documentExtension,
         chunks   |-> <<chunk>> ]

\* The descriptor pushed for one document file.
PageDescriptor(documentFilePath) ==
    LET relativePath == relative(cwd, "src", documentFilePath)
    IN [ template |-> documentFilePath,
         filename |-> relativePath,
         chunks   |-> << ReplaceSlashes(
                            join(dirname(relativePath),
                                 basename(documentFilePath, documentExtension))) >> ]

\* for (const documentFilePath of ...) htmlPages.push({...})
RECURSIVE CollectPages(_, _)
CollectPages(htmlPages, documents) ==
    IF documents = <<>> THEN htmlPages
    ELSE CollectPages(Append(htmlPages, PageDescriptor(Head(documents))),
                      Tail(documents))

Aliases ==
    [ lit            |-> "lit",
      litDecorators  |-> "lit/decorators.js",
      altshiftBox    |-> pathResolve(cwd, ModuleDirname,
                            "node_modules/@altshiftab/web_components/dist/box.js"),
      altshiftSwitch |-> pathResolve(cwd, ModuleDirname,
                            "node_modules/@altshiftab/web_components/dist/switch.js") ]

\* Variant: documents are looked for in src itself only.
generateParametersTopLevelPages ==
    [ entry     |-> CollectEntries(EntryInit,
                        globSync("src/scripts/*" \o scriptExtension)),
      htmlPages |-> CollectPages(HtmlPagesInit,
                        globSync("src/*" \o documentExtension)),
      aliases   |-> Aliases ]

\* Variant: scripts are looked for anywhere under src.
generateParametersAnyScript ==
    [ entry     |-> CollectEntries(EntryInit,
                        globSync("src/**/*" \o scriptExtension)),
      htmlPages |-> CollectPages(HtmlPagesInit,
                        globSync("src/**/*" \o documentExtension)),
      aliases   |-> Aliases ]

generateParameters ==
    [ entry     |-> CollectEntries(EntryInit,
                        globSync("src/scripts/*" \o scriptExtension)),
      htmlPages |-> CollectPages(HtmlPagesInit,
                        globSync("src/**/*" \o documentExtension)),
      aliases   |-> Aliases ]

(***************************************************************************)
(* Parameter discovery of the earlier revision, src/unnamed/part_000: one   *)
(* walk over src/**, dispatching on the extension.                         *)
(***************************************************************************)
RECURSIVE WalkPart000(_, _)
WalkPart000(acc, paths) ==
    IF paths = <<>> THEN acc
    ELSE LET sourceFilePath == Head(paths)
             extension      == extname(sourceFilePath)
             chunk          == basename(sourceFilePath, extension)
         IN WalkPart000(
              IF extension = ".html"
              THEN [acc EXCEPT !.htmlPages =
                        Append(@, [ template |-> sourceFilePath,
                                    filename |-> chunk \o extension,
                                    chunks   |-> <<chunk>> ])]
              ELSE IF extension = ".ts"
              THEN [acc EXCEPT !.entry =
                        SetProperty(@, basename(sourceFilePath, extension),
                                    "./" \o sourceFilePath)]
              ELSE acc,
              Tail(paths))

generateParametersPart000 ==
    LET walked == WalkPart000([entry |-> EmptyObject, htmlPages |-> <<>>],
                              globSync("src/**"))
    IN [ entry     |-> walked.entry,
         htmlPages |-> walked.htmlPages,
         aliases   |-> Aliases ]

(***************************************************************************)
(* Configuration assembly, src/src/index.ts.  A plugin instance              *)
(* new X(options) is the record [kind |-> "X", options |-> options]; a      *)
(* filename template is the list of its literal pieces and placeholders.    *)
(***************************************************************************)
Plugin(kind, options) == [kind |-> kind, options |-> options]

NoOptions == EmptyObject

\* What a caller may hand over as extra plugins: plugin instances of its own,
\* opaque to this module, and the falsy values the type admits.
CallerPluginA == Plugin("CallerPlugin", "A")
CallerPluginB == Plugin("CallerPlugin", "B")
FalsyPlugin   == Plugin("false", NoOptions)

ExtraPluginLists ==
    { <<>>, <<FalsyPlugin>>, <<CallerPluginA, CallerPluginB>>,
      <<CallerPluginB, CallerPluginA>> }

ScriptFilename == <<"scripts/", "[name]", "-", "[contenthash]", ".js">>
StyleFilename  == <<"styles/", "[name]", "-", "[contenthash]", ".css">>
\* Variant: the font template of src/unnamed/part_000, without a hash.
FontFilenameUnhashed == <<"fonts/", "[name]", "[ext]">>
FontFilename   == <<"fonts/", "[name]", ".", "[contenthash]", "[ext]">>
ImageFilename  == <<"images/", "[name]", ".", "[contenthash]", "[ext]">>

Output ==
    [ filename           |-> ScriptFilename,
      path               |-> pathResolve(cwd, ModuleDirname, "dist"),
      clean              |-> TRUE,
      crossOriginLoading |-> "anonymous" ]

Minimizer ==
    << Plugin("TerserPlugin", [terserOptions |-> [compress |-> TRUE]]),
       Plugin("CssMinimizerPlugin", NoOptions),
       Plugin("ImageMinimizerPlugin",
              [ test      |-> "/\\.svg$/i",
                minimizer |->
                  [ implementation |-> "ImageMinimizerPlugin.svgoMinify",
                    options |->
                      [ multipass |-> TRUE,
                        plugins   |->
                          << [ name   |-> "preset-default",
                               params |-> [overrides |-> [removeViewBox |-> FALSE]] ] >> ] ] ]) >>

Optimization ==
    [ minimize    |-> TRUE,
      minimizer   |-> Minimizer,
      splitChunks |-> [chunks |-> "all"] ]

\* The plugins constructed before the page plugins.
LeadingPlugins ==
    << Plugin("ProvidePlugin",
              [ lit            |-> "lit",
                litDecorators  |-> "lit/decorators.js",
                altshiftBox    |-> "@altshiftab/web_components/box",
                altshiftSwitch |-> "@altshiftab/web_components/switch" ]),
       Plugin("LimitChunkCountPlugin", [maxChunks |-> 1]),
       Plugin("RemoveEmptyScriptsPlugin", NoOptions),
       Plugin("MiniCssExtractPlugin", [filename |-> StyleFilename]) >>

\* Variant: the page plugins in reverse order.
PagePluginsReversed(htmlPages) ==
    [i \in 1..Len(htmlPages) |->
        Plugin("HtmlWebpackPlugin", htmlPages[Len(htmlPages) + 1 - i])]

\* parameters.htmlPages.map(page => new HtmlWebpackPlugin(page))
PagePlugins(htmlPages) ==
    [i \in 1..Len(htmlPages) |-> Plugin("HtmlWebpackPlugin", htmlPages[i])]

\* The plugins constructed after the page plugins.
TrailingPlugins == << Plugin("SubresourceIntegrityPlugin", NoOptions) >>

\* Variant: the extra plugins come last.
PluginListAppended(extraPlugins, htmlPages) ==
    LeadingPlugins \o PagePlugins(htmlPages) \o TrailingPlugins \o extraPlugins

\* Variant: without pages there is nothing to hash, and the integrity plugin
\* is left out.
PluginListIntegrityForPages(extraPlugins, htmlPages) ==
    extraPlugins \o LeadingPlugins \o PagePlugins(htmlPages)
        \o (IF htmlPages = <<>> THEN <<>> ELSE TrailingPlugins)

\* plugins: [...extraPlugins, <leading>, ...<pages>, <trailing>]
PluginList(extraPlugins, htmlPages) ==
    extraPlugins \o LeadingPlugins \o PagePlugins(htmlPages) \o TrailingPlugins

\* The alternatives of /^(icon|mask-icon|apple-touch-icon)$/.
RelAlternatives == <<"icon", "mask-icon", "apple-touch-icon">>

\* Variant: the pattern without ^ and $, which matches anywhere in s.
RelRegExpTestUnanchored(s) ==
    \E k \in 1..Len(RelAlternatives) :
        \E i \in 1..Len(s) :
            /\ i + Len(RelAlternatives[k]) - 1 <= Len(s)
            /\ SubSeq(s, i, i + Len(RelAlternatives[k]) - 1) = RelAlternatives[k]

\* /^(icon|mask-icon|apple-touch-icon)$/.test(s): one alternative has to span
\* s from its first to its last character.
RelRegExpTest(s) ==
    \E k \in 1..Len(RelAlternatives) :
        /\ Len(s) = Len(RelAlternatives[k])
        /\ SubSeq(s, 1, Len(RelAlternatives[k])) = RelAlternatives[k]

\* attributes.find(a => a.name === name): the index of the first attribute of
\* that name, 0 when there is none.
RECURSIVE FindAttribute(_, _, _)
FindAttribute(attributes, name, i) ==
    IF i > Len(attributes) THEN 0
    ELSE IF attributes[i].name = name THEN i
    ELSE FindAttribute(attributes, name, i + 1)

\* filter: (tag, attribute, attributes) => { ... }.  An attribute is a record
\* with a name and, unless it was written without one, a value.
relFilter(tag, attribute, attributes) ==
    LET i   == FindAttribute(attributes, "rel", 1)
        rel == IF i = 0 THEN ""
               ELSE IF "value" \in DOMAIN attributes[i] THEN attributes[i].value
               ELSE ""
    IN RelRegExpTest(rel)

Rules ==
    << [ test |-> "/\\.css$/",
         use  |-> <<"MiniCssExtractPlugin.loader", "css-loader">> ],
       [ test      |-> "/\\.(woff2?|eot|ttf|otf)$/i",
         type      |-> "asset/resource",
         generator |-> [filename |-> FontFilename] ],
       [ test      |-> "/\\.(png|svg|jpg|jpeg|gif|avif)$/",
         type      |-> "asset/resource",
         generator |-> [filename |-> ImageFilename] ],
       [ test    |-> "/\\.html$/",
         loader  |-> "html-loader",
         options |-> [ sources |-> [ list |->
                        << "...",
                           [ tag       |-> "link",
                             attribute |-> "href",
                             type      |-> "src",
                             filter    |-> "rel" ] >> ] ] ],
       [ test |-> "/\\.ts$/",
         use  |-> << [loader |-> "@altshiftab/minify_lit"] >> ],
       [ test    |-> "/\\.ts$/",
         exclude |-> "/node_modules/",
         use     |-> << [ loader  |-> "ts-loader",
                          options |->
                            [ compilerOptions |->
                                [ module                  |-> "ESNext",
                                  moduleResolution        |-> "Bundler",
                                  target                  |-> "ESNext",
                                  esModuleInterop         |-> TRUE,
                                  strict                  |-> TRUE,
                                  outDir                  |-> "./dist",
                                  experimentalDecorators  |-> TRUE,
                                  useDefineForClassFields |-> FALSE ],
                              onlyCompileBundledFiles |-> TRUE ] ] >> ] >>

makeConfigWithParameters(params, extraPlugins) ==
    [ mode         |-> "production",
      entry        |-> params.entry,
      output       |-> Output,
      devtool      |-> "source-map",
      optimization |-> Optimization,
      resolve      |-> [extensions |-> <<".ts", ".js">>, alias |-> params.aliases],
      plugins      |-> PluginList(extraPlugins, params.htmlPages),
      module       |-> [rules |-> Rules] ]

\* Variant: makeConfig of the earlier revision, which passes no extra plugins on.
makeConfigWithoutExtras(extraPlugins) ==
    makeConfigWithParameters(generateParameters, <<>>)

\* makeConfig(...extraPlugins)
makeConfig(extraPlugins) ==
    makeConfigWithParameters(generateParameters, extraPlugins)

(***************************************************************************)
(* The state machine.  files and cwd are the environment; parameters and    *)
(* previous are the values the last two generateParameters calls returned,  *)
(* flat the value the earlier revision's discovery returned, config the     *)
(* last configuration returned and call the invocation that returned it;    *)
(* calls counts the generateParameters invocations; filtered is the last    *)
(* element the html rule's source filter was asked about, with its answer.  *)
(***************************************************************************)
None == [none |-> TRUE]

\* Parameters a caller builds by hand instead of discovering them.
CallerParameters ==
    { [ entry     |-> SetProperty(EmptyObject, "main", "./app/main.ts"),
        htmlPages |-> << [template |-> "app/one.html", filename |-> "one.html",
                          chunks |-> <<"main">>],
                         [template |-> "app/two.html", filename |-> "two.html",
                          chunks |-> <<"main", "two">>] >>,
        aliases   |-> [lit |-> "lit"] ] }

Init ==
    /\ files \in Listings(MaxFiles)
    /\ cwd \in WorkingDirectories
    /\ parameters = None
    /\ previous = None
    /\ flat = None
    /\ config = None
    /\ call = None
    /\ calls = 0
    /\ filtered = None

GenerateParameters ==
    /\ calls < MaxCalls
    /\ previous' = parameters
    /\ parameters' = generateParameters
    /\ calls' = calls + 1
    /\ UNCHANGED <<files, cwd, flat, config, call, filtered>>

GenerateParametersPart000 ==
    /\ flat' = generateParametersPart000
    /\ UNCHANGED <<files, cwd, parameters, previous, config, call, calls, filtered>>

MakeConfigWithParameters ==
    \E params \in CallerParameters \cup (IF calls > 0 THEN {parameters} ELSE {}),
       extraPlugins \in ExtraPluginLists :
        /\ config' = makeConfigWithParameters(params, extraPlugins)
        /\ call' = [ op           |-> "makeConfigWithParameters",
                     parameters   |-> params,
                     extraPlugins |-> extraPlugins ]
        /\ UNCHANGED <<files, cwd, parameters, previous, flat, calls, filtered>>

MakeConfig ==
    /\ calls < MaxCalls
    /\ previous' = parameters
    /\ parameters' = generateParameters
    /\ calls' = calls + 1
    /\ \E extraPlugins \in ExtraPluginLists :
        /\ config' = makeConfig(extraPlugins)
        /\ call' = [ op           |-> "makeConfig",
                     parameters   |-> parameters',
                     extraPlugins |-> extraPlugins ]
    /\ UNCHANGED <<files, cwd, flat, filtered>>

Next ==
    \/ GenerateParameters
    \/ GenerateParametersPart000
    \/ MakeConfigWithParameters
    \/ MakeConfig

Spec == Init /\ [][Next]_vars

(***************************************************************************)
(* The html rule at work: the loader asks the filter of the rule's extra    *)
(* source (tag link, attribute href) about the elements of a document.      *)
(***************************************************************************)
\* Values of the rel attribute as documents carry them.
RelValues ==
    { "icon", "mask-icon", "apple-touch-icon", "", "Icon", "ICON", "shortcut icon",
      "icon apple-touch-icon", "alternate icon", "icons", "icon ", " icon",
      "apple-touch-icon-precomposed", "stylesheet" }

\* The attributes an element may carry; a parsed element has no two attributes
\* of one name.
AttributeUniverse ==
    {[name |-> "rel", value |-> v] : v \in RelValues}
        \cup { [name |-> "rel"],
               [name |-> "href", value |-> "/favicon.ico"],
               [name |-> "href", value |-> "icon"],
               [name |-> "sizes", value |-> "any"] }

RECURSIVE AttributeLists(_)
AttributeLists(n) ==
    IF n = 0 THEN {<<>>}
    ELSE LET shorter == AttributeLists(n - 1)
         IN shorter \cup
            {Append(l, a) : <<l, a>> \in
                {<<l, a>> \in shorter \X AttributeUniverse :
                    /\ Len(l) = n - 1
                    /\ \A i \in 1..Len(l) : l[i].name # a.name}}

\* The extra source of the configuration's html rule: the last element of
\* options.sources.list.
ExtraSource(cfg) ==
    LET rules == cfg.module.rules
        html  == CHOOSE i \in 1..Len(rules) : rules[i].test = "/\\.html$/"
        list  == rules[html].options.sources.list
    IN list[Len(list)]

InitLoader ==
    /\ files = <<>>
    /\ cwd \in WorkingDirectories
    /\ parameters = None
    /\ previous = None
    /\ flat = None
    /\ calls = 0
    /\ \E params \in CallerParameters :
        /\ config = makeConfigWithParameters(params, <<>>)
        /\ call = [ op           |-> "makeConfigWithParameters",
                    parameters   |-> params,
                    extraPlugins |-> <<>> ]
    /\ filtered = None

\* The loader meets <tag attribute=...> with these attributes and asks the
\* filter whether the attribute names a source.
ApplySourceFilter ==
    \E attributes \in AttributeLists(MaxAttributes) :
        LET source == ExtraSource(config)
        IN /\ source.filter = "rel"
           /\ filtered' = [ tag        |-> source.tag,
                            attribute  |-> source.attribute,
                            attributes |-> attributes,
                            accepted   |-> relFilter(source.tag, source.attribute,
                                                     attributes) ]
           /\ UNCHANGED <<files, cwd, parameters, previous, flat, config, call, calls>>

NextLoader == ApplySourceFilter

SpecLoader == InitLoader /\ [][NextLoader]_vars

TypeOK ==
    /\ calls \in 0..MaxCalls
    /\ (calls = 0) = (parameters = None)
    /\ (calls < 2) = (previous = None)
    /\ (config = None) = (call = None)

(***************************************************************************)
(* Vocabulary of the properties: the source tree as the specification       *)
(* describes it, stated on the paths themselves.                            *)
(***************************************************************************)
Range(s) == {s[i] : i \in 1..Len(s)}

UnderSrc(f) == StartsWith(f, "src/")

\* f lies in src/scripts itself, not in a directory below it.
DirectlyInScripts(f) ==
    StartsWith(f, "src/scripts/") /\ IndexOfSlash(f, Len("src/scripts/") + 1) = 0

StripSuffix(s, x) == IF EndsWith(s, x) THEN SubSeq(s, 1, Len(s) - Len(x)) ELSE s

\* The document files of the tree, in enumeration order.
DocumentFiles ==
    LET IsDocument(f) == UnderSrc(f) /\ EndsWith(f, ".html")
    IN SelectSeq(files, IsDocument)

\* The script files of the tree, in enumeration order.
ScriptFiles ==
    LET IsScript(f) == DirectlyInScripts(f) /\ EndsWith(f, ".ts")
    IN SelectSeq(files, IsScript)

\* The script files of the earlier revision: any .ts file under src.
ScriptFilesPart000 ==
    LET IsScript(f) == UnderSrc(f) /\ EndsWith(f, ".ts")
    IN SelectSeq(files, IsScript)

\* The path of a file under src, relative to src.
RelativeToSrc(f) == SubSeq(f, Len("src/") + 1, Len(f))

Templates(htmlPages) == [i \in 1..Len(htmlPages) |-> htmlPages[i].template]

Discovered == calls > 0
DiscoveredPart000 == flat # None

(***************************************************************************)
(* C1: for a tree with N script files and M document files, discovery       *)
(* returns an entry mapping of at most N keys and exactly M page            *)
(* descriptors, one per document file and none for any other file.          *)
(***************************************************************************)
C1_EntryAndPageCounts ==
    /\ Discovered =>
        /\ Cardinality(DOMAIN parameters.entry) <= Len(ScriptFiles)
        /\ Len(parameters.htmlPages) = Len(DocumentFiles)
        /\ Templates(parameters.htmlPages) = DocumentFiles
    /\ DiscoveredPart000 =>
        /\ Cardinality(DOMAIN flat.entry) <= Len(ScriptFilesPart000)
        /\ Len(flat.htmlPages) = Len(DocumentFiles)
        /\ Templates(flat.htmlPages) = DocumentFiles

\* A tree with a script, a document below src and a file that is neither.
C1_Witness ==
    /\ Discovered
    /\ Len(files) = 2
    /\ Len(parameters.htmlPages) = 1
    /\ parameters.htmlPages[1].template = "src/p/a.html"
    /\ "lib/a.html" \in Range(files)

\* Two scripts of one name: fewer keys than script files.
C1_WitnessCollision ==
    /\ DiscoveredPart000
    /\ Len(ScriptFilesPart000) = 2
    /\ Cardinality(DOMAIN flat.entry) = 1

(***************************************************************************)
(* C2, as claimed: the single chunk name of a page is the document's path   *)
(* relative to src with every "/" replaced by "_".                          *)
(***************************************************************************)
C2_ChunkIsFlattenedRelativePath ==
    Discovered =>
        \A i \in 1..Len(parameters.htmlPages) :
            parameters.htmlPages[i].chunks =
                << ReplaceSlashes(RelativeToSrc(parameters.htmlPages[i].template)) >>

(***************************************************************************)
(* C2, amended: the single chunk name of a page is the document's path      *)
(* relative to src, without the .html extension, with every "/" replaced    *)
(* by "_".                                                                  *)
(***************************************************************************)
C2_ChunkIsFlattenedPathWithoutExtension ==
    Discovered =>
        \A i \in 1..Len(parameters.htmlPages) :
            parameters.htmlPages[i].chunks =
                << ReplaceSlashes(
                      StripSuffix(RelativeToSrc(parameters.htmlPages[i].template),
                                  ".html")) >>

\* A document in a directory below src has been discovered.
C2_Witness ==
    /\ Discovered
    /\ \E i \in 1..Len(parameters.htmlPages) :
        /\ parameters.htmlPages[i].template = "src/p/a.html"
        /\ parameters.htmlPages[i].chunks = <<"p_a">>

(***************************************************************************)
(* C3, as claimed: the extra plugins are the last elements of the plugin    *)
(* list, after all generated plugins, in the caller's order.                *)
(***************************************************************************)
C3_ExtrasAfterGenerated ==
    config # None =>
        LET n == Len(config.plugins)
            e == Len(call.extraPlugins)
        IN /\ e <= n
           /\ SubSeq(config.plugins, n - e + 1, n) = call.extraPlugins

(***************************************************************************)
(* C3, amended: the extra plugins are the first elements of the plugin      *)
(* list, before all generated plugins, in the caller's order, one position  *)
(* for each argument; nothing after them is a caller's value.               *)
(***************************************************************************)
GeneratedKinds ==
    { "ProvidePlugin", "LimitChunkCountPlugin", "RemoveEmptyScriptsPlugin",
      "MiniCssExtractPlugin", "HtmlWebpackPlugin", "SubresourceIntegrityPlugin" }

C3_ExtrasBeforeGenerated ==
    config # None =>
        LET n == Len(config.plugins)
            e == Len(call.extraPlugins)
        IN /\ e <= n
           /\ SubSeq(config.plugins, 1, e) = call.extraPlugins
           /\ \A i \in (e + 1)..n : config.plugins[i].kind \in GeneratedKinds
           /\ n = e + 5 + Len(call.parameters.htmlPages)

\* Two distinct extra plugins were passed, through either function.
C3_Witness ==
    /\ config # None
    /\ call.op = "makeConfig"
    /\ call.extraPlugins = <<CallerPluginB, CallerPluginA>>
    /\ config.plugins[1] = CallerPluginB
    /\ config.plugins[2] = CallerPluginA

(***************************************************************************)
(* C4: a file becomes an entry iff it has the extension .ts and lies        *)
(* directly in src/scripts; it becomes a page iff it has the extension      *)
(* .html and lies anywhere under src; any other file contributes to         *)
(* neither.                                                                 *)
(***************************************************************************)
IsEntryOf(params, f) == \E k \in DOMAIN params.entry : params.entry[k] = "./" \o f
IsPageOf(params, f)  == \E i \in 1..Len(params.htmlPages) : params.htmlPages[i].template = f

C4_ClassifiedByExtensionAndLocation ==
    Discovered =>
        /\ \A f \in Range(files) :
            /\ IsEntryOf(parameters, f) <=> (DirectlyInScripts(f) /\ EndsWith(f, ".ts"))
            /\ IsPageOf(parameters, f) <=> (UnderSrc(f) /\ EndsWith(f, ".html"))
            /\ (~EndsWith(f, ".ts") /\ ~EndsWith(f, ".html")) =>
                    ~IsEntryOf(parameters, f) /\ ~IsPageOf(parameters, f)
        /\ \A k \in DOMAIN parameters.entry :
            \E f \in Range(files) : parameters.entry[k] = "./" \o f
        /\ \A i \in 1..Len(parameters.htmlPages) :
            parameters.htmlPages[i].template \in Range(files)

\* A script below src/scripts and a script in it: only the second is an entry.
C4_Witness ==
    /\ Discovered
    /\ Range(files) = {"src/scripts/x/a.ts", "src/scripts/b.ts"}
    /\ DOMAIN parameters.entry = {"b"}

\* A style sheet and a document outside src: neither entry nor page.
C4_WitnessIgnored ==
    /\ Discovered
    /\ Range(files) = {"src/a.css", "lib/a.html"}
    /\ parameters.entry = EmptyObject
    /\ parameters.htmlPages = <<>>

(***************************************************************************)
(* C5: the key of a discovered script is its basename without .ts and the   *)
(* value is "./" followed by its path; of several scripts with one key the  *)
(* last enumerated one is the one the key maps to.                          *)
(***************************************************************************)
KeyOf(f) == StripSuffix(LastSegment(f), ".ts")

\* entry is the mapping the scripts, in this order, leave behind.
LastWins(entry, scripts) ==
    /\ DOMAIN entry = {KeyOf(scripts[i]) : i \in 1..Len(scripts)}
    /\ \A i \in 1..Len(scripts) :
        LET last == CHOOSE j \in i..Len(scripts) :
                        /\ KeyOf(scripts[j]) = KeyOf(scripts[i])
                        /\ \A m \in (j + 1)..Len(scripts) :
                                KeyOf(scripts[m]) # KeyOf(scripts[i])
        IN entry[KeyOf(scripts[i])] = "./" \o scripts[last]

C5_EntryKeyValueLastWins ==
    /\ Discovered => LastWins(parameters.entry, ScriptFiles)
    /\ DiscoveredPart000 => LastWins(flat.entry, ScriptFilesPart000)

\* Two scripts named a, in both revisions' view: the later one is kept.
C5_Witness ==
    /\ Discovered
    /\ DiscoveredPart000
    /\ files = <<"src/scripts/a.ts", "src/a.ts">>
    /\ parameters.entry["a"] = "./src/scripts/a.ts"
    /\ flat.entry["a"] = "./src/a.ts"

Kinds(plugins) == [i \in 1..Len(plugins) |-> plugins[i].kind]

WithoutPagePlugins(plugins) ==
    LET NotPage(p) == p.kind # "HtmlWebpackPlugin"
    IN SelectSeq(plugins, NotPage)

Tests(rules) == [i \in 1..Len(rules) |-> rules[i].test]

C7_EmptyParametersCompleteConfig ==
    ( /\ config # None
      /\ call.parameters.entry = EmptyObject
      /\ call.parameters.htmlPages = <<>> ) =>
        /\ config.entry = EmptyObject
        /\ \A i \in 1..Len(config.plugins) :
                config.plugins[i].kind # "HtmlWebpackPlugin"
        /\ Kinds(SubSeq(config.plugins, Len(call.extraPlugins) + 1, Len(config.plugins)))
              = << "ProvidePlugin", "LimitChunkCountPlugin", "RemoveEmptyScriptsPlugin",
                   "MiniCssExtractPlugin", "SubresourceIntegrityPlugin" >>
        /\ Kinds(config.optimization.minimizer)
              = << "TerserPlugin", "CssMinimizerPlugin", "ImageMinimizerPlugin" >>
        /\ Tests(config.module.rules)
              = << "/\\.css$/", "/\\.(woff2?|eot|ttf|otf)$/i",
                   "/\\.(png|svg|jpg|jpeg|gif|avif)$/", "/\\.html$/",
                   "/\\.ts$/", "/\\.ts$/" >>
        /\ \A params \in CallerParameters :
            LET full == makeConfigWithParameters(params, call.extraPlugins)
            IN /\ params.htmlPages # <<>>
               /\ config.plugins = WithoutPagePlugins(full.plugins)
               /\ config.optimization = full.optimization
               /\ config.module = full.module
               /\ config.output = full.output

\* A configuration was assembled from what discovery found in a tree with no
\* script and no document, with an extra plugin.
C7_Witness ==
    /\ config # None
    /\ Discovered
    /\ call.parameters = parameters
    /\ parameters.entry = EmptyObject
    /\ parameters.htmlPages = <<>>
    /\ call.extraPlugins = <<FalsyPlugin>>
    /\ Len(config.plugins) = 6

(***************************************************************************)
(* C8: for M page descriptors the plugin list holds exactly M page          *)
(* plugins, one per descriptor and in the descriptors' order, all after     *)
(* the style extraction plugin and before the subresource integrity         *)
(* plugin, which is the last element.                                       *)
(***************************************************************************)
IndexesOfKind(plugins, kind) == {i \in 1..Len(plugins) : plugins[i].kind = kind}

C8_OnePagePluginPerDescriptor ==
    config # None =>
        LET pages == call.parameters.htmlPages
            n     == Len(config.plugins)
            style == IndexesOfKind(config.plugins, "MiniCssExtractPlugin")
            html  == IndexesOfKind(config.plugins, "HtmlWebpackPlugin")
        IN /\ Cardinality(html) = Len(pages)
           /\ Cardinality(style) = 1
           /\ \A s \in style :
                /\ html = (s + 1)..(s + Len(pages))
                /\ \A i \in 1..Len(pages) : config.plugins[s + i].options = pages[i]
                /\ n = s + Len(pages) + 1
           /\ config.plugins[n].kind = "SubresourceIntegrityPlugin"
           /\ IndexesOfKind(config.plugins, "SubresourceIntegrityPlugin") = {n}

\* Two different descriptors were turned into two page plugins.
C8_Witness ==
    /\ config # None
    /\ Len(call.parameters.htmlPages) = 2
    /\ call.parameters.htmlPages[1] # call.parameters.htmlPages[2]
    /\ call.extraPlugins # <<>>
    /\ Cardinality(IndexesOfKind(config.plugins, "HtmlWebpackPlugin")) = 2

(***************************************************************************)
(* C9: each of the four output filename templates (scripts, styles,         *)
(* images, fonts) contains a content hash and starts with its own           *)
(* directory, and the output directory is cleaned.                          *)
(***************************************************************************)
HasContentHash(template) == \E i \in 1..Len(template) : template[i] = "[contenthash]"

\* The filename templates of the rules for asset files whose test is test.
GeneratorFilenames(rules, test) ==
    {rules[i].generator.filename :
        i \in {j \in 1..Len(rules) : rules[j].test = test}}

StyleFilenames(plugins) ==
    {plugins[i].options.filename : i \in IndexesOfKind(plugins, "MiniCssExtractPlugin")}

Hashed(templates, directory) ==
    /\ templates # {}
    /\ \A template \in templates :
        /\ Head(template) = directory
        /\ HasContentHash(template)

C9_HashedFilenamesCleanOutput ==
    config # None =>
        /\ Hashed({config.output.filename}, "scripts/")
        /\ Hashed(StyleFilenames(config.plugins), "styles/")
        /\ Hashed(GeneratorFilenames(config.module.rules, "/\\.(png|svg|jpg|jpeg|gif|avif)$/"),
                  "images/")
        /\ Hashed(GeneratorFilenames(config.module.rules, "/\\.(woff2?|eot|ttf|otf)$/i"),
                  "fonts/")
        /\ config.output.clean = TRUE

\* A configuration was assembled for a discovered tree.
C9_Witness ==
    /\ config # None
    /\ call.op = "makeConfigWithParameters"
    /\ Discovered
    /\ call.parameters = parameters
    /\ DOMAIN config.entry # {}

(***************************************************************************)
(* C10: makeConfig(extras) returns what makeConfigWithParameters returns    *)
(* for the discovered parameters and the same extras; it runs discovery     *)
(* once, and the configuration's entry map and aliases are the discovered   *)
(* entry mapping and alias table, unmodified.                               *)
(***************************************************************************)
C10_MakeConfigIsAssemblyOfDiscovery ==
    [][ ( /\ call' # call
          /\ call' # None
          /\ call'.op = "makeConfig" ) =>
            /\ calls' = calls + 1
            /\ call'.parameters = parameters'
            /\ config' = makeConfigWithParameters(parameters', call'.extraPlugins)
            /\ config'.entry = parameters'.entry
            /\ config'.resolve.alias = parameters'.aliases
            /\ config'.plugins =
                    PluginList(call'.extraPlugins, parameters'.htmlPages) ]_vars

\* makeConfig was called with extra plugins on a tree with a script and a
\* document.
C10_Witness ==
    /\ config # None
    /\ call.op = "makeConfig"
    /\ call.extraPlugins = <<CallerPluginA, CallerPluginB>>
    /\ call.parameters = parameters
    /\ DOMAIN config.entry = {"b"}
    /\ Len(parameters.htmlPages) = 1

(***************************************************************************)
(* C11: the extra source rule of the html loader (tag link, attribute       *)
(* href) accepts an element iff the element has a rel attribute whose       *)
(* value is exactly icon, mask-icon or apple-touch-icon; no rel, an empty   *)
(* rel, a rel in another letter case or a rel of several tokens is          *)
(* rejected.                                                                *)
(***************************************************************************)
HasIconRel(attributes) ==
    \E i \in 1..Len(attributes) :
        /\ attributes[i].name = "rel"
        /\ "value" \in DOMAIN attributes[i]
        /\ attributes[i].value \in {"icon", "mask-icon", "apple-touch-icon"}

C11_FilterAcceptsExactIconRel ==
    filtered # None =>
        /\ filtered.tag = "link"
        /\ filtered.attribute = "href"
        /\ filtered.accepted <=> HasIconRel(filtered.attributes)

\* An element whose rel comes after its href is accepted.
C11_Witness ==
    /\ filtered # None
    /\ filtered.attributes = << [name |-> "href", value |-> "/favicon.ico"],
                                [name |-> "rel", value |-> "apple-touch-icon"] >>
    /\ filtered.accepted

\* An element whose rel has two tokens is rejected, and so is one whose href,
\* not its rel, reads icon.
C11_WitnessRejected ==
    /\ filtered # None
    /\ \/ filtered.attributes = << [name |-> "rel", value |-> "shortcut icon"] >>
       \/ filtered.attributes = << [name |-> "href", value |-> "icon"] >>
    /\ ~filtered.accepted

(***************************************************************************)
(* C12: two distinct discovered documents have distinct output filenames    *)
(* (the filename is the document's path relative to src), so no page        *)
(* overwrites another; their chunk names may coincide.                      *)
(***************************************************************************)
C12_DistinctPageFilenames ==
    Discovered =>
        \A i, j \in 1..Len(parameters.htmlPages) :
            LET a == parameters.htmlPages[i]
                b == parameters.htmlPages[j]
            IN /\ a.filename = RelativeToSrc(a.template)
               /\ (a.template # b.template) => (a.filename # b.filename)
               /\ (i # j) => (a.template # b.template)

\* Two documents that share a chunk name and still differ in filename.
C12_Witness ==
    /\ Discovered
    /\ Len(parameters.htmlPages) = 2
    /\ parameters.htmlPages[1].chunks = parameters.htmlPages[2].chunks
    /\ parameters.htmlPages[1].filename = "p/a.html"
    /\ parameters.htmlPages[2].filename = "p_a.html"

====
